---- MODULE Spec2Model ----
(***************************************************************************)
(* A state-machine model of the Frontier state-transition engine of        *)
(* src/src/ethereum/frontier/spec.py: state_transition and everything it   *)
(* calls (header and genesis validation, body execution, the transaction   *)
(* processor, reward payment, ommer validation, the block-hash window).    *)
(***************************************************************************)
EXTENDS Integers, Sequences, FiniteSets, TLC

VARIABLES
    chain,      \* BlockChain: [blocks : Seq(Block), state : State]
    last,       \* the last state_transition call: its block and how it ended
    calls,      \* number of state_transition calls made so far
    probe       \* harness of the pure functions: [fn, args, out]

vars == <<chain, last, calls, probe>>

(***************************************************************************)
(* Uint / U256: unbounded unsigned integers.  The values of the program    *)
(* (5 * 10^18 wei, difficulty 0x400000000) exceed TLC's 32-bit machine     *)
(* integers, so a number is its little-endian sequence of Base-digits      *)
(* without leading zero digits; zero is the empty sequence.                *)
(***************************************************************************)
Base == 10000

RECURSIVE FromInt(_)
FromInt(n) == IF n = 0 THEN <<>> ELSE <<n % Base>> \o FromInt(n \div Base)

RECURSIVE ToInt(_)
ToInt(a) == IF a = <<>> THEN 0 ELSE Head(a) + Base * ToInt(Tail(a))

RECURSIVE Strip(_)
Strip(a) ==
    IF a = <<>> THEN <<>>
    ELSE IF a[Len(a)] = 0 THEN Strip(SubSeq(a, 1, Len(a) - 1))
    ELSE a

Digit(a, i) == IF i <= Len(a) THEN a[i] ELSE 0

RECURSIVE AddFrom(_, _, _, _)
AddFrom(a, b, i, carry) ==
    IF i > Len(a) /\ i > Len(b)
    THEN IF carry = 0 THEN <<>> ELSE <<carry>>
    ELSE LET s == Digit(a, i) + Digit(b, i) + carry
         IN  <<s % Base>> \o AddFrom(a, b, i + 1, s \div Base)

\* a + b
UAdd(a, b) == AddFrom(a, b, 1, 0)

RECURSIVE LessFrom(_, _, _)
LessFrom(a, b, i) ==
    IF i = 0 THEN FALSE
    ELSE IF a[i] # b[i] THEN a[i] < b[i]
    ELSE LessFrom(a, b, i - 1)

\* a < b
ULess(a, b) ==
    IF Len(a) # Len(b) THEN Len(a) < Len(b) ELSE LessFrom(a, b, Len(a))

\* a <= b
ULeq(a, b) == ~ULess(b, a)

RECURSIVE SubFrom(_, _, _, _)
SubFrom(a, b, i, borrow) ==
    IF i > Len(a) THEN <<>>
    ELSE LET d == Digit(a, i) - Digit(b, i) - borrow
         IN  IF d < 0
             THEN <<d + Base>> \o SubFrom(a, b, i + 1, 1)
             ELSE <<d>> \o SubFrom(a, b, i + 1, 0)

\* a - b, for b <= a (the callers test it: a negative Uint is an error)
USub(a, b) == Strip(SubFrom(a, b, 1, 0))

RECURSIVE MulFrom(_, _, _, _)
MulFrom(a, m, i, carry) ==
    IF i > Len(a)
    THEN FromInt(carry)
    ELSE LET p == a[i] * m + carry
         IN  <<p % Base>> \o MulFrom(a, m, i + 1, p \div Base)

\* a * m for a machine-sized m
UMul(a, m) == Strip(MulFrom(a, m, 1, 0))

RECURSIVE DivFrom(_, _, _, _)
DivFrom(a, d, i, rem) ==
    IF i = 0 THEN <<>>
    ELSE LET cur == rem * Base + a[i]
         IN  DivFrom(a, d, i - 1, cur % d) \o <<cur \div d>>

\* a // d for a machine-sized d > 0
UFloorDiv(a, d) == Strip(DivFrom(a, d, Len(a), 0))

UMax(a, b) == IF ULess(a, b) THEN b ELSE a

(***************************************************************************)
(* Program constants.                                                      *)
(***************************************************************************)
BLOCK_REWARD == <<0, 0, 0, 0, 500>>          \* U256(5 * 10 ** 18)
GAS_LIMIT_ADJUSTMENT_FACTOR == 1024
GAS_LIMIT_MINIMUM == 5000
GENESIS_DIFFICULTY == 131072
TX_BASE_COST == 21000
TX_DATA_COST_PER_ZERO == 4
TX_DATA_COST_PER_NON_ZERO == 68
ZERO_ADDRESS == "zero"                       \* b'\x00' * 20
ZERO_HASH32 == <<>>                          \* b'\x00' * 32
EMPTY_ACCOUNT == [nonce |-> 0, balance |-> <<>>]

(***************************************************************************)
(* Collaborators: keccak256 over rlp.encode, and the trie root.  Both are  *)
(* collision free: a hash is the tagged value it was computed from, the    *)
(* tag standing for the shape of the RLP encoding (a header is a list of   *)
(* 15 items, a block a list of 3 lists, ...).  The bloom of a sequence of  *)
(* logs keeps which logs are in it, not their order or multiplicity.       *)
(***************************************************************************)
keccak256_rlp(shape, value) == <<shape, value>>
trie_root(kind, mapping) == <<kind, mapping>>
logs_bloom(logs) == {logs[i] : i \in DOMAIN logs}

(***************************************************************************)
(* check_gas_limit and calculate_block_difficulty.                         *)
(***************************************************************************)
check_gas_limit_wide_delta(gas_limit, parent_gas_limit) ==
    LET max_adjustment_delta == parent_gas_limit \div GAS_LIMIT_ADJUSTMENT_FACTOR + 1
    IN  IF gas_limit >= parent_gas_limit + max_adjustment_delta THEN FALSE
        ELSE IF gas_limit <= parent_gas_limit - max_adjustment_delta THEN FALSE
        ELSE IF gas_limit < GAS_LIMIT_MINIMUM THEN FALSE
        ELSE TRUE

check_gas_limit_inclusive(gas_limit, parent_gas_limit) ==
    LET max_adjustment_delta == parent_gas_limit \div GAS_LIMIT_ADJUSTMENT_FACTOR
    IN  IF gas_limit > parent_gas_limit + max_adjustment_delta THEN FALSE
        ELSE IF gas_limit < parent_gas_limit - max_adjustment_delta THEN FALSE
        ELSE IF gas_limit < GAS_LIMIT_MINIMUM THEN FALSE
        ELSE TRUE

check_gas_limit(gas_limit, parent_gas_limit) ==
    LET max_adjustment_delta == parent_gas_limit \div GAS_LIMIT_ADJUSTMENT_FACTOR
    IN  IF gas_limit >= parent_gas_limit + max_adjustment_delta THEN FALSE
        ELSE IF gas_limit <= parent_gas_limit - max_adjustment_delta THEN FALSE
        ELSE IF gas_limit < GAS_LIMIT_MINIMUM THEN FALSE
        ELSE TRUE

calculate_block_difficulty_no_floor(number, timestamp, parent_timestamp, parent_difficulty) ==
    LET max_adjustment_delta == UFloorDiv(parent_difficulty, 2048)
    IN  IF number = 0 THEN FromInt(GENESIS_DIFFICULTY)
        ELSE IF timestamp < parent_timestamp + 13
        THEN UAdd(parent_difficulty, max_adjustment_delta)
        ELSE USub(parent_difficulty, max_adjustment_delta)

calculate_block_difficulty(number, timestamp, parent_timestamp, parent_difficulty) ==
    LET max_adjustment_delta == UFloorDiv(parent_difficulty, 2048)
    IN  IF number = 0 THEN FromInt(GENESIS_DIFFICULTY)
        ELSE IF timestamp < parent_timestamp + 13
        THEN UAdd(parent_difficulty, max_adjustment_delta)
        ELSE UMax(FromInt(GENESIS_DIFFICULTY),
                  USub(parent_difficulty, max_adjustment_delta))

(***************************************************************************)
(* MAINNET_GENESIS_CONFIG (genesis.py, values as tests/test_genesis.py     *)
(* pins them).  The allocation of assets/mainnet.json is cut down to one   *)
(* funded account.                                                         *)
(***************************************************************************)
MAINNET_EXTRA_DATA ==
    << 17, 187, 232, 219, 78, 52, 123, 78, 140, 147, 124, 28, 131, 112, 228, 181,
       237, 51, 173, 179, 219, 105, 203, 219, 122, 56, 225, 229, 11, 27, 130, 250 >>

MAINNET_GENESIS_CONFIG ==
    [ difficulty |-> <<9184, 7986, 171>>,          \* 0x400000000 = 17179869184
      extra_data |-> MAINNET_EXTRA_DATA,
      gas_limit  |-> 5000,
      nonce      |-> <<0, 0, 0, 0, 0, 0, 0, 66>>,  \* 0x0000000000000042
      timestamp  |-> 0,
      alloc      |-> [a \in {"a1"} |-> [balance |-> <<0, 0, 0, 0, 100>>]] ]

(***************************************************************************)
(* State: a mapping Address -> Account in which an absent address is the   *)
(* empty account (eth_types: modify_state, add_ether, move_ether).         *)
(***************************************************************************)
get_account(state, address) ==
    IF address \in DOMAIN state THEN state[address] ELSE EMPTY_ACCOUNT

set_account(state, address, account) ==
    IF account = EMPTY_ACCOUNT
    THEN [a \in DOMAIN state \ {address} |-> state[a]]
    ELSE [a \in DOMAIN state \cup {address} |->
              IF a = address THEN account ELSE state[a]]

add_ether(state, address, amount) ==
    LET account == get_account(state, address)
    IN  set_account(state, address,
                    [account EXCEPT !.balance = UAdd(account.balance, amount)])

\* [ok, state]: the sender's balance must cover the amount
move_ether(state, sender_address, recipient_address, amount) ==
    LET sender == get_account(state, sender_address)
    IN  IF ULess(sender.balance, amount)
        THEN [ok |-> FALSE, state |-> state]
        ELSE LET debited == set_account(state, sender_address,
                     [sender EXCEPT !.balance = USub(sender.balance, amount)])
             IN  [ok |-> TRUE,
                  state |-> add_ether(debited, recipient_address, amount)]

increment_nonce_skipped(state, address) == state

increment_nonce(state, address) ==
    LET account == get_account(state, address)
    IN  set_account(state, address, [account EXCEPT !.nonce = account.nonce + 1])

(***************************************************************************)
(* Hashes of headers, blocks and ommer lists.                              *)
(***************************************************************************)
compute_header_hash(header) == keccak256_rlp("header", header)
compute_block_hash(block) == keccak256_rlp("block", block)
compute_ommers_hash(ommers) == keccak256_rlp("headers", ommers)
state_root(state) == trie_root("state", state)

\* the header of the first block whose header hash is `hash`, or NoHeader
NoHeader == [number |-> -1]

RECURSIVE find_header_or_last(_, _, _)
find_header_or_last(hash, blocks, i) ==
    IF i > Len(blocks)
    THEN IF blocks = <<>> THEN NoHeader ELSE blocks[Len(blocks)].header
    ELSE IF compute_header_hash(blocks[i].header) = hash THEN blocks[i].header
    ELSE find_header_or_last(hash, blocks, i + 1)

RECURSIVE find_header(_, _, _)
find_header(hash, blocks, i) ==
    IF i > Len(blocks) THEN NoHeader
    ELSE IF compute_header_hash(blocks[i].header) = hash THEN blocks[i].header
    ELSE find_header(hash, blocks, i + 1)

get_block_header_by_hash(hash, c) == find_header(hash, c.blocks, 1)

(***************************************************************************)
(* get_recent_block_hashes: Python's slice blocks[-(n - 1):] is the whole  *)
(* list when n - 1 is 0 or at least the length of the list.                *)
(***************************************************************************)
python_tail(blocks, k) ==
    IF k = 0 \/ k >= Len(blocks) THEN blocks
    ELSE SubSeq(blocks, Len(blocks) - k + 1, Len(blocks))

get_recent_block_hashes(c, num_blocks) ==
    IF Len(c.blocks) = 0 \/ num_blocks = 0 THEN <<>>
    ELSE LET most_recent_block_hash == compute_block_hash(c.blocks[Len(c.blocks)])
             recent_blocks == python_tail(c.blocks, num_blocks - 1)
         IN  [i \in 1..Len(recent_blocks) |-> recent_blocks[i].header.parent_hash]
                 \o <<most_recent_block_hash>>

(***************************************************************************)
(* Header validation.  Each returns the name of the first assertion that   *)
(* fails, or "none".                                                       *)
(***************************************************************************)
validate_header_no_timestamp(header, parent_header) ==
    IF header.difficulty # calculate_block_difficulty(header.number,
           header.timestamp, parent_header.timestamp, parent_header.difficulty)
    THEN "difficulty"
    ELSE IF ~check_gas_limit(header.gas_limit, parent_header.gas_limit)
    THEN "gas_limit"
    ELSE IF ~(header.number = parent_header.number + 1) THEN "number"
    ELSE IF ~(Len(header.extra_data) <= 32) THEN "extra_data"
    ELSE "none"

validate_header(header, parent_header) ==
    IF header.difficulty # calculate_block_difficulty(header.number,
           header.timestamp, parent_header.timestamp, parent_header.difficulty)
    THEN "difficulty"
    ELSE IF ~check_gas_limit(header.gas_limit, parent_header.gas_limit)
    THEN "gas_limit"
    ELSE IF ~(header.timestamp > parent_header.timestamp) THEN "timestamp"
    ELSE IF ~(header.number = parent_header.number + 1) THEN "number"
    ELSE IF ~(Len(header.extra_data) <= 32) THEN "extra_data"
    ELSE "none"

validate_genesis_header_no_nonce(genesis_header) ==
    IF genesis_header.parent_hash # ZERO_HASH32 THEN "parent_hash"
    ELSE IF genesis_header.coinbase # ZERO_ADDRESS THEN "coinbase"
    ELSE IF genesis_header.difficulty # MAINNET_GENESIS_CONFIG.difficulty THEN "difficulty"
    ELSE IF genesis_header.number # 0 THEN "number"
    ELSE IF genesis_header.gas_limit # MAINNET_GENESIS_CONFIG.gas_limit THEN "gas_limit"
    ELSE IF genesis_header.gas_used # 0 THEN "gas_used"
    ELSE IF genesis_header.timestamp # MAINNET_GENESIS_CONFIG.timestamp THEN "timestamp"
    ELSE IF genesis_header.extra_data # MAINNET_GENESIS_CONFIG.extra_data THEN "extra_data"
    ELSE IF genesis_header.mix_digest # ZERO_HASH32 THEN "mix_digest"
    ELSE "none"

validate_genesis_header(genesis_header) ==
    IF genesis_header.parent_hash # ZERO_HASH32 THEN "parent_hash"
    ELSE IF genesis_header.coinbase # ZERO_ADDRESS THEN "coinbase"
    ELSE IF genesis_header.difficulty # MAINNET_GENESIS_CONFIG.difficulty THEN "difficulty"
    ELSE IF genesis_header.number # 0 THEN "number"
    ELSE IF genesis_header.gas_limit # MAINNET_GENESIS_CONFIG.gas_limit THEN "gas_limit"
    ELSE IF genesis_header.gas_used # 0 THEN "gas_used"
    ELSE IF genesis_header.timestamp # MAINNET_GENESIS_CONFIG.timestamp THEN "timestamp"
    ELSE IF genesis_header.extra_data # MAINNET_GENESIS_CONFIG.extra_data THEN "extra_data"
    ELSE IF genesis_header.mix_digest # ZERO_HASH32 THEN "mix_digest"
    ELSE IF genesis_header.nonce # MAINNET_GENESIS_CONFIG.nonce THEN "nonce"
    ELSE "none"

RECURSIVE credit_all(_, _, _)
credit_all(state, alloc_data, addresses) ==
    IF addresses = {} THEN state
    ELSE LET address == CHOOSE a \in addresses : TRUE
         IN  credit_all(add_ether(state, address, alloc_data[address].balance),
                        alloc_data, addresses \ {address})

apply_prealloc(state, alloc_data) ==
    credit_all(state, alloc_data, DOMAIN alloc_data)

(***************************************************************************)
(* Transaction processor.  recover_sender is the signature collaborator:   *)
(* a transaction carries the address its signature recovers to.            *)
(***************************************************************************)
RECURSIVE data_cost_from(_, _)
data_cost_from(data, i) ==
    IF i > Len(data) THEN 0
    ELSE (IF data[i] = 0 THEN TX_DATA_COST_PER_ZERO ELSE TX_DATA_COST_PER_NON_ZERO)
             + data_cost_from(data, i + 1)

calculate_intrinsic_cost_base_only(tx) == TX_BASE_COST

calculate_intrinsic_cost(tx) == TX_BASE_COST + data_cost_from(tx.data, 1)

recover_sender(tx) == tx.sender

validate_transaction_no_balance(tx, env) ==
    LET sender == env.origin
    IN  /\ sender \in DOMAIN env.state
        /\ env.state[sender].nonce = tx.nonce
        /\ calculate_intrinsic_cost(tx) <= tx.gas

\* env.state[sender] of an address that is not in the state raises
validate_transaction(tx, env) ==
    LET sender == env.origin
    IN  /\ sender \in DOMAIN env.state
        /\ env.state[sender].nonce = tx.nonce
        /\ calculate_intrinsic_cost(tx) <= tx.gas
        /\ ULeq(FromInt(tx.gas * tx.gas_price), env.state[sender].balance)

\* The EVM collaborator on accounts without code: the value moves from the
\* caller to the target, no gas is used and no log is emitted.  message is
\* the call as the collaborator received it.
LOGGER == "lg"

\* the code at LOGGER emits one log that carries the call's data; no other
\* address holds code
emitted_logs(target, data) ==
    IF target = LOGGER THEN <<[address |-> target, topics |-> <<>>, data |-> data]>>
    ELSE <<>>

process_call(caller, target, data, value, gas, depth, env) ==
    LET moved == move_ether(env.state, caller, target, value)
    IN  [ok |-> moved.ok, state |-> moved.state, gas_left |-> gas,
         logs |-> IF moved.ok THEN emitted_logs(target, data) ELSE <<>>,
         message |-> [caller |-> caller, target |-> target, data |-> data,
                      value |-> value, gas |-> gas, depth |-> depth]]

\* [error, state, gas_used, logs, vm]; state is env.state as the call left
\* it, vm the calls made to the EVM collaborator
tx_result(error, state, gas_used, logs, vm) ==
    [error |-> error, state |-> state, gas_used |-> gas_used, logs |-> logs,
     vm |-> vm]

\* after move_ether of the fee: increment_nonce and the return
settle_nonce(sender, gas_used, logs, vm, paid) ==
    IF ~paid.ok
    THEN tx_result("move_ether", paid.state, 0, <<>>, vm)
    ELSE tx_result("none", increment_nonce(paid.state, sender), gas_used, logs, vm)

settle_fee_full_gas(env, tx, called) ==
    IF ~called.ok
    THEN tx_result("process_call", called.state, 0, <<>>, <<called.message>>)
    ELSE settle_nonce(env.origin, tx.gas - called.gas_left, called.logs,
                      <<called.message>>,
                      move_ether(called.state, env.origin, env.coinbase,
                                 FromInt(tx.gas * tx.gas_price)))

settle_fee_minted(env, tx, called) ==
    IF ~called.ok
    THEN tx_result("process_call", called.state, 0, <<>>, <<called.message>>)
    ELSE settle_nonce(env.origin, tx.gas - called.gas_left, called.logs,
                      <<called.message>>,
                      [ok |-> TRUE,
                       state |-> add_ether(called.state, env.coinbase,
                                     FromInt((tx.gas - called.gas_left) * tx.gas_price))])

\* after process_call: gas_used = tx.gas - gas_left and the fee to the coinbase
settle_fee(env, tx, called) ==
    IF ~called.ok
    THEN tx_result("process_call", called.state, 0, <<>>, <<called.message>>)
    ELSE settle_nonce(env.origin, tx.gas - called.gas_left, called.logs,
                      <<called.message>>,
                      move_ether(called.state, env.origin, env.coinbase,
                                 FromInt((tx.gas - called.gas_left) * tx.gas_price)))

process_transaction(env, tx) ==
    IF ~validate_transaction(tx, env)
    THEN tx_result("validate_transaction", env.state, 0, <<>>, <<>>)
    ELSE IF tx.to = "none"
    THEN tx_result("NotImplementedError", env.state, 0, <<>>, <<>>)
    ELSE settle_fee(env, tx,
                    process_call(env.origin, tx.to, tx.data, tx.value,
                                 tx.gas - calculate_intrinsic_cost(tx), 0, env))

(***************************************************************************)
(* Reward payment.                                                         *)
(***************************************************************************)
\* BLOCK_REWARD - cut, for the ommer's coinbase
ommer_miner_reward(state, ommer, cut) ==
    IF ULess(BLOCK_REWARD, cut)
    THEN [ok |-> FALSE, state |-> state]        \* a negative U256
    ELSE [ok |-> TRUE,
          state |-> add_ether(state, ommer.coinbase, USub(BLOCK_REWARD, cut))]

RECURSIVE pay_ommers(_, _, _, _)
pay_next_ommer(paid, block_number, ommers, i) ==
    IF ~paid.ok THEN paid ELSE pay_ommers(paid.state, block_number, ommers, i + 1)

pay_ommers(state, block_number, ommers, i) ==
    IF i > Len(ommers) THEN [ok |-> TRUE, state |-> state]
    ELSE IF block_number < ommers[i].number
    THEN [ok |-> FALSE, state |-> state]        \* a negative Uint
    ELSE pay_next_ommer(
             ommer_miner_reward(state, ommers[i],
                 UFloorDiv(UMul(BLOCK_REWARD, block_number - ommers[i].number), 8)),
             block_number, ommers, i)

pay_rewards_flat(state, block_number, coinbase, ommers) ==
    pay_ommers(add_ether(state, coinbase, BLOCK_REWARD), block_number, ommers, 1)

pay_rewards(state, block_number, coinbase, ommers) ==
    pay_ommers(add_ether(state, coinbase,
                   UAdd(BLOCK_REWARD, UFloorDiv(UMul(BLOCK_REWARD, Len(ommers)), 32))),
               block_number, ommers, 1)

(***************************************************************************)
(* Body execution.                                                         *)
(***************************************************************************)
environment(sender_address, tx, state, b) ==
    [caller |-> sender_address, origin |-> sender_address,
     block_hashes |-> b.block_hashes, coinbase |-> b.coinbase,
     number |-> b.block_number, gas_limit |-> b.block_gas_limit,
     gas_price |-> tx.gas_price, time |-> b.block_time,
     difficulty |-> b.block_difficulty, state |-> state]

make_receipt(state, cumulative_gas_used, logs) ==
    [post_state |-> state_root(state),
     cumulative_gas_used |-> cumulative_gas_used,
     bloom |-> logs_bloom(logs),
     logs |-> logs]

body_run(error, state, gas_available, receipts, vm) ==
    [error |-> error, state |-> state,
     gas_available |-> gas_available, receipts |-> receipts, vm |-> vm]

RECURSIVE run_transactions(_, _, _, _, _, _)
record_transaction_newest_first(done, gas_available, receipts, vm, i, b) ==
    IF done.error # "none"
    THEN body_run(done.error, done.state, gas_available, receipts, vm \o done.vm)
    ELSE run_transactions(done.state, gas_available - done.gas_used,
             <<make_receipt(done.state,
                   b.block_gas_limit - (gas_available - done.gas_used),
                   done.logs)>> \o receipts,
             vm \o done.vm, i + 1, b)

\* after process_transaction: gas_available -= gas_used, the receipt, the next one
record_transaction(done, gas_available, receipts, vm, i, b) ==
    IF done.error # "none"
    THEN body_run(done.error, done.state, gas_available, receipts, vm \o done.vm)
    ELSE run_transactions(done.state, gas_available - done.gas_used,
             Append(receipts,
                    make_receipt(done.state,
                        b.block_gas_limit - (gas_available - done.gas_used),
                        done.logs)),
             vm \o done.vm, i + 1, b)

run_transactions_unchecked(state, gas_available, receipts, vm, i, b) ==
    IF i > Len(b.transactions)
    THEN body_run("none", state, gas_available, receipts, vm)
    ELSE record_transaction(
             process_transaction(
                 environment(recover_sender(b.transactions[i]),
                             b.transactions[i], state, b),
                 b.transactions[i]),
             gas_available, receipts, vm, i, b)

\* vm collects the calls made to the EVM collaborator, in order
run_transactions(state, gas_available, receipts, vm, i, b) ==
    IF i > Len(b.transactions)
    THEN body_run("none", state, gas_available, receipts, vm)
    ELSE IF ~(b.transactions[i].gas <= gas_available)
    THEN body_run("tx.gas", state, gas_available, receipts, vm)
    ELSE record_transaction(
             process_transaction(
                 environment(recover_sender(b.transactions[i]),
                             b.transactions[i], state, b),
                 b.transactions[i]),
             gas_available, receipts, vm, i, b)

\* the roots, the bloom of block_logs (which stays empty) and the return
body_result(error, state, gas_used, transactions, receipts, vm) ==
    [error |-> error,
     vm |-> vm,
     gas_used |-> gas_used,
     transactions_root |-> trie_root("transactions", transactions),
     receipt_root |-> trie_root("receipts", receipts),
     block_logs_bloom |-> logs_bloom(<<>>),
     receipts |-> receipts,
     state |-> state]

finish_body(ran, rewarded, block_gas_limit, transactions) ==
    body_result(IF ~rewarded.ok THEN "pay_rewards" ELSE "none", rewarded.state,
                block_gas_limit - ran.gas_available, transactions, ran.receipts,
                ran.vm)

reward_body(ran, coinbase, block_number, block_gas_limit, transactions, ommers) ==
    IF ran.error # "none"
    THEN body_result(ran.error, ran.state, block_gas_limit - ran.gas_available,
                     transactions, ran.receipts, ran.vm)
    ELSE finish_body(ran,
                     IF block_number # 0
                     THEN pay_rewards(ran.state, block_number, coinbase, ommers)
                     ELSE [ok |-> TRUE, state |-> ran.state],
                     block_gas_limit, transactions)

\* [error, gas_used, transactions_root, receipt_root, block_logs_bloom, state]
apply_body(state, block_hashes, coinbase, block_number, block_gas_limit, block_time, block_difficulty, transactions, ommers) ==
    reward_body(
        run_transactions(state, block_gas_limit, <<>>, <<>>, 1,
            [block_hashes |-> block_hashes, coinbase |-> coinbase,
             block_number |-> block_number, block_gas_limit |-> block_gas_limit,
             block_time |-> block_time, block_difficulty |-> block_difficulty,
             transactions |-> transactions]),
        coinbase, block_number, block_gas_limit, transactions, ommers)

(***************************************************************************)
(* Ommer validation.  chain.blocks[len - age] is a Python index: a         *)
(* negative one counts from the end, one below -len raises.                *)
(***************************************************************************)
python_index(blocks, i) ==
    IF i >= 0 THEN i + 1 ELSE Len(blocks) + i + 1

RECURSIVE validate_each_ommer_any_age(_, _, _, _)
validate_each_ommer_any_age(ommers, block_number, c, i) ==
    IF i > Len(ommers) THEN "none"
    ELSE
    LET ommer == ommers[i]
        ommer_age == block_number - ommer.number
        at == python_index(c.blocks, Len(c.blocks) - ommer_age)
        equivalent_canonical_block == c.blocks[at]
    IN  IF ~(at \in 1..Len(c.blocks)) THEN "IndexError"
        ELSE IF ~(compute_header_hash(ommer)
                    # compute_header_hash(equivalent_canonical_block.header))
        THEN "ommer_hash"
        ELSE IF ~(ommer.parent_hash = equivalent_canonical_block.header.parent_hash)
        THEN "ommer.parent_hash"
        ELSE validate_each_ommer_any_age(ommers, block_number, c, i + 1)

RECURSIVE validate_each_ommer(_, _, _, _)
validate_each_ommer(ommers, block_number, c, i) ==
    IF i > Len(ommers) THEN "none"
    ELSE
    LET ommer == ommers[i]
        ommer_age == block_number - ommer.number
        at == python_index(c.blocks, Len(c.blocks) - ommer_age)
        equivalent_canonical_block == c.blocks[at]
    IN  IF ~(1 <= ommer_age /\ ommer_age <= 6) THEN "ommer_age"
        ELSE IF ~(at \in 1..Len(c.blocks)) THEN "IndexError"
        ELSE IF ~(compute_header_hash(ommer)
                    # compute_header_hash(equivalent_canonical_block.header))
        THEN "ommer_hash"
        ELSE IF ~(ommer.parent_hash = equivalent_canonical_block.header.parent_hash)
        THEN "ommer.parent_hash"
        ELSE validate_each_ommer(ommers, block_number, c, i + 1)

validate_ommers(ommers, expected_ommers_hash, block_number, c) ==
    IF ~(Len(ommers) <= 2) THEN "len(ommers)"
    ELSE IF ~(compute_ommers_hash(ommers) = expected_ommers_hash) THEN "ommers_hash"
    ELSE validate_each_ommer(ommers, block_number, c, 1)

(***************************************************************************)
(* state_transition.  The state is mutated in place by apply_prealloc and  *)
(* apply_body, so chain.state after a failed call is the state as the      *)
(* failing step left it.  The result names the step that failed (stage)    *)
(* and the assertion or exception (error), "none" on success.              *)
(***************************************************************************)
NoBody == [error |-> "not run"]

outcome(stage, error, blocks, state) ==
    [stage |-> stage, error |-> error, blocks |-> blocks, state |-> state,
     body |-> NoBody]

\* the outcome of a call that executed the body: what apply_body returned
body_outcome(stage, error, blocks, body) ==
    [stage |-> stage, error |-> error, blocks |-> blocks, state |-> body.state,
     body |-> body]

append_block_first(blocks, block) == <<block>> \o blocks

\* chain.blocks.append(block)
append_block(blocks, block) == Append(blocks, block)

commitment_mismatch_no_bloom(body, header) ==
    IF ~(body.transactions_root = header.transactions_root) THEN "transactions_root"
    ELSE IF ~(body.receipt_root = header.receipt_root) THEN "receipt_root"
    ELSE IF ~(state_root(body.state) = header.state_root) THEN "state_root"
    ELSE "none"

\* the four assertions that follow validate_ommers
commitment_mismatch(body, header) ==
    IF ~(body.transactions_root = header.transactions_root) THEN "transactions_root"
    ELSE IF ~(body.receipt_root = header.receipt_root) THEN "receipt_root"
    ELSE IF ~(state_root(body.state) = header.state_root) THEN "state_root"
    ELSE IF ~(body.block_logs_bloom = header.bloom) THEN "bloom"
    ELSE "none"

\* the assertions after apply_body, validate_ommers among them, and the append
check_body(c, block, body) ==
    IF body.error # "none"
    THEN body_outcome("apply_body", body.error, c.blocks, body)
    ELSE IF ~(body.gas_used = block.header.gas_used)
    THEN body_outcome("state_transition", "gas_used", c.blocks, body)
    ELSE IF validate_ommers(block.ommers, block.header.ommers_hash,
                            block.header.number, c) # "none"
    THEN body_outcome("validate_ommers",
                 validate_ommers(block.ommers, block.header.ommers_hash,
                                 block.header.number, c),
                 c.blocks, body)
    ELSE IF commitment_mismatch(body, block.header) # "none"
    THEN body_outcome("state_transition", commitment_mismatch(body, block.header),
                      c.blocks, body)
    ELSE body_outcome("done", "none", append_block(c.blocks, block), body)

execute_body(c, block, state) ==
    check_body(c, block,
               apply_body(state, get_recent_block_hashes(c, 256),
                          block.header.coinbase, block.header.number,
                          block.header.gas_limit, block.header.timestamp,
                          block.header.difficulty, block.transactions,
                          block.ommers))

\* the branch of a block whose number is not 0
extend_chain(c, block, parent_header) ==
    IF parent_header.number = -1
    THEN outcome("get_block_header_by_hash", "ValueError", c.blocks, c.state)
    ELSE IF validate_header(block.header, parent_header) # "none"
    THEN outcome("validate_header", validate_header(block.header, parent_header),
                 c.blocks, c.state)
    ELSE execute_body(c, block, c.state)

state_transition(c, block) ==
    IF block.header.number = 0
    THEN IF validate_genesis_header(block.header) # "none"
         THEN outcome("validate_genesis_header",
                      validate_genesis_header(block.header), c.blocks, c.state)
         ELSE execute_body(c, block,
                           apply_prealloc(c.state, MAINNET_GENESIS_CONFIG.alloc))
    ELSE extend_chain(c, block,
                      get_block_header_by_hash(block.header.parent_hash, c))

(***************************************************************************)
(* The blocks handed to state_transition.  block_on is the block a miner   *)
(* builds on a parent header for the chain as it stands: its commitments   *)
(* are those of executing its body on chain.state.  The other candidates   *)
(* are that block with one part changed.                                   *)
(***************************************************************************)
MaxCalls == 3

transfer(nonce, gas) ==
    [nonce |-> nonce, gas_price |-> 1, gas |-> gas, to |-> "a2",
     value |-> <<0, 0, 0, 0, 10>>, data |-> <<>>, sender |-> "a1"]

\* a2 sends a tenth of what a transfer brought it back to a1
reply(nonce) ==
    [nonce |-> nonce, gas_price |-> 1, gas |-> 21000, to |-> "a1",
     value |-> <<0, 0, 0, 0, 1>>, data |-> <<>>, sender |-> "a2"]

\* a transfer with two bytes of data, one of them zero
data_transfer(nonce, gas) == [transfer(nonce, gas) EXCEPT !.data = <<0, 1>>]

sealed_block(header, transactions, ommers, body) ==
    [header |-> [header EXCEPT
                    !.ommers_hash = compute_ommers_hash(ommers),
                    !.state_root = state_root(body.state),
                    !.transactions_root = body.transactions_root,
                    !.receipt_root = body.receipt_root,
                    !.bloom = body.block_logs_bloom,
                    !.gas_used = body.gas_used],
     transactions |-> transactions,
     ommers |-> ommers]

seal(c, header, transactions, ommers) ==
    sealed_block(header, transactions, ommers,
        apply_body(IF header.number = 0
                   THEN apply_prealloc(c.state, MAINNET_GENESIS_CONFIG.alloc)
                   ELSE c.state,
                   get_recent_block_hashes(c, 256),
                   header.coinbase, header.number, header.gas_limit,
                   header.timestamp, header.difficulty, transactions, ommers))

blank_header ==
    [parent_hash |-> ZERO_HASH32, ommers_hash |-> compute_ommers_hash(<<>>),
     coinbase |-> ZERO_ADDRESS, state_root |-> state_root(<<>>),
     transactions_root |-> trie_root("transactions", <<>>),
     receipt_root |-> trie_root("receipts", <<>>), bloom |-> {},
     difficulty |-> <<>>, number |-> 0, gas_limit |-> 0, gas_used |-> 0,
     timestamp |-> 0, extra_data |-> <<>>, mix_digest |-> ZERO_HASH32,
     nonce |-> <<0, 0, 0, 0, 0, 0, 0, 0>>]

child_header(parent_header, elapsed) ==
    [blank_header EXCEPT
        !.parent_hash = compute_header_hash(parent_header),
        !.coinbase = "cb",
        !.difficulty = calculate_block_difficulty(parent_header.number + 1,
                           parent_header.timestamp + elapsed,
                           parent_header.timestamp, parent_header.difficulty),
        !.number = parent_header.number + 1,
        !.gas_limit = parent_header.gas_limit,
        !.timestamp = parent_header.timestamp + elapsed]

mainnet_genesis_header ==
    [blank_header EXCEPT
        !.difficulty = MAINNET_GENESIS_CONFIG.difficulty,
        !.gas_limit = MAINNET_GENESIS_CONFIG.gas_limit,
        !.timestamp = MAINNET_GENESIS_CONFIG.timestamp,
        !.extra_data = MAINNET_GENESIS_CONFIG.extra_data,
        !.nonce = MAINNET_GENESIS_CONFIG.nonce]

\* a header with the parent and number of `header` that is not `header`
sibling(header) == [header EXCEPT !.coinbase = "oc", !.mix_digest = <<"mix">>]

ORPHAN_HASH == <<"orphan">>
LONG_EXTRA_DATA == [i \in 1..33 |-> 0]

\* A candidate: the genesis block (kind "genesis") or a child of `parent`
\* mined `elapsed` seconds after it, with one part changed (fault).
recipe(kind, parent, elapsed, transactions, ommers, fault) ==
    [kind |-> kind, parent |-> parent, elapsed |-> elapsed,
     transactions |-> transactions, ommers |-> ommers, fault |-> fault]

\* the header fields changed before the block is sealed
before_seal(header, r) ==
    LET delta == r.parent.gas_limit \div GAS_LIMIT_ADJUSTMENT_FACTOR
    IN  CASE r.fault = "coinbase" -> [header EXCEPT !.coinbase = "cb"]
          [] r.fault = "difficulty" ->
                 [header EXCEPT !.difficulty =
                     IF r.kind = "genesis" THEN FromInt(GENESIS_DIFFICULTY)
                     ELSE r.parent.difficulty]
          [] r.fault = "gas_limit" -> [header EXCEPT !.gas_limit = header.gas_limit + 1]
          [] r.fault = "gas_limit_high" ->
                 [header EXCEPT !.gas_limit = r.parent.gas_limit + delta]
          [] r.fault = "gas_limit_low" ->
                 [header EXCEPT !.gas_limit = r.parent.gas_limit - delta]
          [] r.fault = "gas_limit_minimum" ->
                 [header EXCEPT !.gas_limit = GAS_LIMIT_MINIMUM - 1]
          [] r.fault = "timestamp" -> [header EXCEPT !.timestamp = header.timestamp + 1]
          [] r.fault = "number" -> [header EXCEPT !.number = header.number + 1]
          [] r.fault = "extra_data" -> [header EXCEPT !.extra_data = LONG_EXTRA_DATA]
          [] r.fault = "mix_digest" -> [header EXCEPT !.mix_digest = <<"mix">>]
          [] r.fault = "nonce" -> [header EXCEPT !.nonce = blank_header.nonce]
          [] OTHER -> header

\* the header fields changed after the block is sealed
after_seal(header, r, c) ==
    CASE r.fault = "parent_hash" -> [header EXCEPT !.parent_hash = ORPHAN_HASH]
      [] r.fault = "gas_used" -> [header EXCEPT !.gas_used = header.gas_used + 1]
      [] r.fault = "state_root" -> [header EXCEPT !.state_root = state_root(c.state)]
      [] r.fault = "transactions_root" ->
             [header EXCEPT !.transactions_root = ORPHAN_HASH]
      [] r.fault = "receipt_root" -> [header EXCEPT !.receipt_root = ORPHAN_HASH]
      [] r.fault = "bloom" -> [header EXCEPT !.bloom = {"log"}]
      [] r.fault = "ommers_hash" -> [header EXCEPT !.ommers_hash = ORPHAN_HASH]
      [] OTHER -> header

faulted(sealed, r, c) == [sealed EXCEPT !.header = after_seal(sealed.header, r, c)]

build(c, r) ==
    faulted(seal(c,
                 before_seal(IF r.kind = "genesis" THEN mainnet_genesis_header
                             ELSE child_header(r.parent, r.elapsed), r),
                 r.transactions, r.ommers),
            r, c)

\* the genesis block, as it is and with one header field changed
GenesisFaults ==
    {"none", "parent_hash", "coinbase", "difficulty", "gas_limit", "gas_used",
     "timestamp", "extra_data", "mix_digest", "nonce", "state_root"}

\* a child of the tip without transactions and ommers with one field changed
HeaderFaults ==
    {"parent_hash", "difficulty", "gas_limit_high", "gas_limit_low",
     "gas_limit_minimum", "number", "extra_data", "gas_used",
     "state_root", "transactions_root", "receipt_root", "bloom", "ommers_hash"}

\* children of the tip by what they carry
Bodies == {"empty", "late", "same_second", "transfer", "two_transfers",
           "nonce_reused", "gas_below_intrinsic", "gas_above_limit", "creation",
           "ommer", "old_ommer", "canonical_ommer", "stranger_ommer",
           "young_ommer", "three_ommers", "fork", "orphan_transfer",
           "two_senders", "data_underpaid"}

child_recipe(c, body) ==
    LET n == Len(c.blocks)
        tip == c.blocks[n].header
        nonce == get_account(c.state, "a1").nonce
        nonce2 == get_account(c.state, "a2").nonce
        stranger == [sibling(tip) EXCEPT !.parent_hash = ORPHAN_HASH]
        young == [sibling(tip) EXCEPT !.number = tip.number + 1]
        elapsed == CASE body = "late" -> 13
                     [] body \in {"same_second", "orphan_transfer"} -> 0
                     [] OTHER -> 5
        transactions ==
            CASE body \in {"transfer", "orphan_transfer"} ->
                     <<transfer(nonce, 21000)>>
              [] body = "two_transfers" ->
                     <<transfer(nonce, 21000), transfer(nonce + 1, 21000)>>
              [] body = "nonce_reused" ->
                     <<transfer(nonce, 21000), transfer(nonce, 21000)>>
              [] body = "gas_below_intrinsic" -> <<transfer(nonce, 20999)>>
              [] body = "gas_above_limit" -> <<transfer(nonce, tip.gas_limit + 1)>>
              [] body = "two_senders" ->
                     <<data_transfer(nonce, 30000), reply(nonce2)>>
              [] body = "data_underpaid" -> <<data_transfer(nonce, 21071)>>
              [] body = "creation" ->
                     <<[transfer(nonce, 21000) EXCEPT !.to = "none"]>>
              [] OTHER -> <<>>
        ommers ==
            CASE body = "ommer" -> <<sibling(tip)>>
              [] body = "old_ommer" ->
                     <<sibling(c.blocks[IF n > 1 THEN n - 1 ELSE n].header)>>
              [] body = "canonical_ommer" -> <<tip>>
              [] body = "stranger_ommer" -> <<stranger>>
              [] body = "young_ommer" -> <<young>>
              [] body = "three_ommers" -> <<sibling(tip), sibling(tip), sibling(tip)>>
              [] OTHER -> <<>>
    IN  recipe("child", IF body = "fork" THEN c.blocks[1].header ELSE tip,
               elapsed, transactions, ommers,
               IF body = "orphan_transfer" THEN "parent_hash" ELSE "none")

Recipes(c) ==
    {recipe("genesis", blank_header, 0, <<>>, <<>>, fault) : fault \in GenesisFaults}
        \cup (IF c.blocks = <<>>
              THEN {recipe("child", mainnet_genesis_header, 5, <<>>, <<>>, "none")}
              ELSE {child_recipe(c, body) : body \in Bodies}
                   \cup {recipe("child", c.blocks[Len(c.blocks)].header, 5,
                                <<>>, <<>>, fault) : fault \in HeaderFaults})

Candidates(c) == {build(c, r) : r \in Recipes(c)}

(***************************************************************************)
(* The chain is created empty with an empty state (sync.py, block_sync),   *)
(* or with a genesis block and its pre-state (run_blockchain_st_test).     *)
(***************************************************************************)
EmptyChain == [blocks |-> <<>>, state |-> <<>>]

TEST_PRE_STATE == [a \in {"a1"} |-> [nonce |-> 0, balance |-> <<0, 0, 0, 0, 100>>]]

TEST_GENESIS_BLOCK ==
    [header |-> [blank_header EXCEPT
                    !.coinbase = "cb",
                    !.state_root = state_root(TEST_PRE_STATE),
                    !.difficulty = FromInt(GENESIS_DIFFICULTY),
                    !.gas_limit = 5000000],
     transactions |-> <<>>,
     ommers |-> <<>>]

TestChain == [blocks |-> <<TEST_GENESIS_BLOCK>>, state |-> TEST_PRE_STATE]

Idle == [fn |-> "none", args |-> <<>>, out |-> <<>>]

Init ==
    /\ chain \in {EmptyChain, TestChain}
    /\ last = [block |-> <<>>, stage |-> "init", error |-> "none", pre |-> chain,
               body |-> NoBody]
    /\ calls = 0
    /\ probe = Idle

StateTransition ==
    /\ calls < MaxCalls
    /\ \E block \in Candidates(chain) :
          LET result == state_transition(chain, block)
          IN  /\ chain' = [blocks |-> result.blocks, state |-> result.state]
              /\ last' = [block |-> block, stage |-> result.stage,
                          error |-> result.error, pre |-> chain,
                          body |-> result.body]
    /\ calls' = calls + 1
    /\ UNCHANGED probe

Next == StateTransition

Spec == Init /\ [][Next]_vars

(***************************************************************************)
(* Harness of check_gas_limit: Init draws a gas limit and a parent gas     *)
(* limit around the bounds of the rule, the action applies the function.   *)
(***************************************************************************)
Spread == 2

ParentGasLimits ==
    {0, 1, 1023, 1024, 2047, 2048, 4999, 5000, 5119, 5120, 5121, 6144, 10240,
     5000000}

GasLimitsNear(parent_gas_limit) ==
    LET d == parent_gas_limit \div 1024
    IN  {g \in ((parent_gas_limit - d - Spread)..(parent_gas_limit - d + Spread))
               \cup ((parent_gas_limit + d - Spread)..(parent_gas_limit + d + Spread))
               \cup ((5000 - Spread)..(5000 + Spread))
               \cup {parent_gas_limit} : g >= 0}

InitGasLimit ==
    /\ chain = EmptyChain
    /\ last = [block |-> <<>>, stage |-> "init", error |-> "none", pre |-> chain,
               body |-> NoBody]
    /\ calls = 0
    /\ \E p \in ParentGasLimits : \E g \in GasLimitsNear(p) :
          probe = [fn |-> "check_gas_limit", gas_limit |-> g,
                   parent_gas_limit |-> p, done |-> FALSE, out |-> FALSE]

CheckGasLimit ==
    /\ ~probe.done
    /\ probe' = [probe EXCEPT !.done = TRUE,
                    !.out = check_gas_limit(probe.gas_limit, probe.parent_gas_limit)]
    /\ UNCHANGED <<chain, last, calls>>

NextGasLimit == CheckGasLimit

SpecGasLimit == InitGasLimit /\ [][NextGasLimit]_vars

(***************************************************************************)
(* Harness of calculate_block_difficulty and of the difficulty assertion   *)
(* of validate_header: Init draws the four arguments and the difficulty a  *)
(* header claims, the action computes the difficulty and validates a       *)
(* header that is otherwise valid for its parent.                          *)
(***************************************************************************)
ParentDifficulties ==
    {0, 2047, 2048, 131071, 131072, 131073, 133120, 133183, 135000, 1000000,
     2000000000}

TimestampsAfter(parent_timestamp) ==
    {parent_timestamp + 1, parent_timestamp + 5, parent_timestamp + 100}
        \cup ((parent_timestamp + 13 - Spread)..(parent_timestamp + 13 + Spread))

ClaimedDifficulties(parent_difficulty) ==
    LET d == parent_difficulty \div 2048
    IN  {parent_difficulty, parent_difficulty + d, parent_difficulty - d, 131072}

InitDifficulty ==
    /\ chain = EmptyChain
    /\ last = [block |-> <<>>, stage |-> "init", error |-> "none", pre |-> chain,
               body |-> NoBody]
    /\ calls = 0
    /\ \E n \in 0..Spread : \E pt \in {0, 100} : \E t \in TimestampsAfter(pt) :
       \E pd \in ParentDifficulties : \E claimed \in ClaimedDifficulties(pd) :
          probe = [fn |-> "calculate_block_difficulty", number |-> n,
                   timestamp |-> t, parent_timestamp |-> pt,
                   parent_difficulty |-> pd, claimed |-> claimed,
                   done |-> FALSE, difficulty |-> <<>>, verdict |-> "none"]

probe_parent_header ==
    [blank_header EXCEPT
        !.number = probe.number - 1,
        !.timestamp = probe.parent_timestamp,
        !.difficulty = FromInt(probe.parent_difficulty),
        !.gas_limit = GAS_LIMIT_MINIMUM]

probe_header ==
    [child_header(probe_parent_header, probe.timestamp - probe.parent_timestamp)
        EXCEPT !.difficulty = FromInt(probe.claimed)]

CalculateDifficulty ==
    /\ ~probe.done
    /\ probe' = [probe EXCEPT
                    !.done = TRUE,
                    !.difficulty = calculate_block_difficulty(probe.number,
                        probe.timestamp, probe.parent_timestamp,
                        FromInt(probe.parent_difficulty)),
                    !.verdict = IF probe.number = 0 THEN "none"
                                ELSE validate_header(probe_header, probe_parent_header)]
    /\ UNCHANGED <<chain, last, calls>>

NextDifficulty == CalculateDifficulty

SpecDifficulty == InitDifficulty /\ [][NextDifficulty]_vars

(***************************************************************************)
(* Harness of process_transaction: Init draws the sender's account, the    *)
(* other accounts and a transaction, the action applies the function in    *)
(* the environment of a block of coinbase "cb".                            *)
(***************************************************************************)
SenderBalances ==
    {<<>>, FromInt(20999), FromInt(21000), FromInt(42144),
     <<0, 0, 0, 0, 10>>, <<1000, 2, 0, 0, 10>>, <<0, 0, 0, 0, 100>>}

SenderAccounts ==
    [nonce : 0..1, balance : SenderBalances] \ {EMPTY_ACCOUNT}

ProbeStates ==
    {<<>>, [a \in {"a2"} |-> [nonce |-> 0, balance |-> <<5>>]]}
        \cup {[a \in {"a1"} |-> account] : account \in SenderAccounts}
        \cup {[a \in {"a1", "cb"} |->
                  IF a = "a1" THEN account ELSE [nonce |-> 0, balance |-> <<7>>]] :
              account \in SenderAccounts}

ProbeTransactions ==
    [nonce : 0..Spread, gas_price : 0..Spread,
     gas : {20999, 21000, 21003, 21004, 21071, 21072, 30000},
     to : {"a1", "a2", "cb", LOGGER, "none"},
     value : {<<>>, <<0, 0, 0, 0, 10>>},
     data : {<<>>, <<0>>, <<0, 1>>},
     sender : {"a1"}]

probe_block ==
    [block_hashes |-> <<>>, coinbase |-> "cb", block_number |-> 1,
     block_gas_limit |-> 5000000, block_time |-> 5,
     block_difficulty |-> FromInt(GENESIS_DIFFICULTY), transactions |-> <<>>]

InitTransaction ==
    /\ chain = EmptyChain
    /\ last = [block |-> <<>>, stage |-> "init", error |-> "none", pre |-> chain,
               body |-> NoBody]
    /\ calls = 0
    /\ \E state \in ProbeStates, tx \in ProbeTransactions :
           probe = [fn |-> "process_transaction", state |-> state, tx |-> tx,
                    done |-> FALSE,
                    result |-> tx_result("not run", state, 0, <<>>, <<>>)]

ProcessTransaction ==
    /\ ~probe.done
    /\ probe' = [probe EXCEPT
                    !.done = TRUE,
                    !.result = process_transaction(
                                   environment(recover_sender(probe.tx), probe.tx,
                                               probe.state, probe_block),
                                   probe.tx)]
    /\ UNCHANGED <<chain, last, calls>>

NextTransaction == ProcessTransaction

SpecTransaction == InitTransaction /\ [][NextTransaction]_vars

(***************************************************************************)
(* Harness of apply_body: Init draws the state, the block's number and     *)
(* coinbase, its transactions and its ommers; the action applies the       *)
(* function.  One family of inputs is a block of number 1 with one         *)
(* transaction, the other a block with ommers of every age from 0 to 8.    *)
(***************************************************************************)
ommer_header(number, coinbase) ==
    [blank_header EXCEPT !.number = number, !.coinbase = coinbase]

RewardedNumbers == {0, 1, 9}

OmmerPool(number) ==
    {ommer_header(n, coinbase) :
        n \in {m \in (number - 8)..number : m >= 0}, coinbase \in {"oc", "cb"}}

OmmerLists(number) ==
    {<<>>} \cup {<<o>> : o \in OmmerPool(number)}
           \cup {<<o1, o2>> : o1 \in OmmerPool(number), o2 \in OmmerPool(number)}

RewardedStates ==
    {<<>>, TEST_PRE_STATE,
     [a \in {"cb", "oc"} |-> [nonce |-> 0, balance |-> <<9999, 9999, 9999, 9999, 499>>]]}

\* transactions of a1 that pay a2 or call LOGGER, and the lists of up to
\* three of them in every order, nonces in sequence, reused and skipped
SequencedTransactions ==
    {[nonce |-> nonce, gas_price |-> 1, gas |-> gas, to |-> callee[1],
      value |-> <<0, 0, 0, 0, 10>>, data |-> callee[2], sender |-> "a1"] :
        nonce \in 0..2, gas \in {21000, 30000},
        callee \in {<<"a2", <<>>>>, <<LOGGER, <<1>>>>, <<LOGGER, <<2>>>>}}

TransactionLists ==
    {<<>>} \cup {<<t1>> : t1 \in SequencedTransactions}
           \cup {<<t1, t2>> : t1 \in SequencedTransactions, t2 \in SequencedTransactions}
           \cup {<<t1, t2, t3>> : t1 \in SequencedTransactions,
                                  t2 \in SequencedTransactions,
                                  t3 \in SequencedTransactions}

\* a block gas limit high above what three transactions use and one that the
\* second or the third transaction exceeds
BlockGasLimits == {5000000, 50000}

BodyInputs ==
    {[state |-> state, number |-> 1, coinbase |-> "cb", gas_limit |-> 5000000,
      transactions |-> <<tx>>, ommers |-> <<>>] :
        state \in ProbeStates, tx \in ProbeTransactions}
    \cup UNION {{[state |-> state, number |-> number, coinbase |-> "cb",
                  gas_limit |-> 5000000,
                  transactions |-> <<>>, ommers |-> ommers] :
                    state \in RewardedStates, ommers \in OmmerLists(number)} :
                number \in RewardedNumbers}
    \cup {[state |-> TEST_PRE_STATE, number |-> 1, coinbase |-> "cb",
           gas_limit |-> gas_limit,
           transactions |-> transactions, ommers |-> <<>>] :
             gas_limit \in BlockGasLimits, transactions \in TransactionLists}

InitBody ==
    /\ chain = EmptyChain
    /\ last = [block |-> <<>>, stage |-> "init", error |-> "none", pre |-> chain,
               body |-> NoBody]
    /\ calls = 0
    /\ \E input \in BodyInputs :
           probe = [fn |-> "apply_body", input |-> input, done |-> FALSE,
                    result |-> body_result("not run", input.state, 0, <<>>, <<>>, <<>>)]

ApplyBody ==
    /\ ~probe.done
    /\ probe' = [probe EXCEPT
                    !.done = TRUE,
                    !.result = apply_body(probe.input.state, <<>>,
                                   probe.input.coinbase, probe.input.number,
                                   probe.input.gas_limit, 5,
                                   FromInt(GENESIS_DIFFICULTY),
                                   probe.input.transactions, probe.input.ommers)]
    /\ UNCHANGED <<chain, last, calls>>

NextBody == ApplyBody

SpecBody == InitBody /\ [][NextBody]_vars

(***************************************************************************)
(* Blocks with ommers on a long chain: the chain is the test chain         *)
(* extended by up to MaxAncestors empty blocks, each accepted by           *)
(* state_transition; the action hands state_transition a child of the tip  *)
(* whose ommers are siblings of ancestors, ancestors themselves, headers   *)
(* of unknown parents or headers of the child's own number.                *)
(***************************************************************************)
MaxAncestors == 9

as_chain(result) == [blocks |-> result.blocks, state |-> result.state]

\* c extended by n empty blocks; an empty chain has no tip to extend
RECURSIVE grow(_, _)
grow(c, n) ==
    IF c.blocks = <<>> \/ n = 0 THEN c
    ELSE grow(as_chain(state_transition(c, build(c, child_recipe(c, "empty")))),
              n - 1)

AncestorOmmers(c) ==
    LET n == Len(c.blocks)
        tip == c.blocks[n].header
    IN  {sibling(c.blocks[k].header) : k \in 1..n}
            \cup {c.blocks[k].header : k \in 1..n}
            \cup {[sibling(c.blocks[k].header) EXCEPT !.parent_hash = ORPHAN_HASH] :
                      k \in 1..n}
            \cup {[sibling(tip) EXCEPT !.number = tip.number + 1]}

RecentOmmers(c) ==
    {sibling(c.blocks[k].header) :
        k \in {j \in 1..Len(c.blocks) : j > Len(c.blocks) - 2}}
        \cup {sibling(c.blocks[1].header)}

\* ommers for a second child of the first block: a sibling of the first
\* block, and a sibling of the tip numbered as the first block
ForkOmmers(c) ==
    LET tip == c.blocks[Len(c.blocks)].header
        first == c.blocks[1].header
    IN  {<<>>, <<sibling(first)>>, <<[sibling(tip) EXCEPT !.number = first.number]>>}

OmmerRecipes(c) ==
    LET tip == c.blocks[Len(c.blocks)].header
    IN  {recipe("child", tip, 5, <<>>, <<o>>, fault) :
            o \in AncestorOmmers(c), fault \in {"none"}}
        \cup {recipe("child", tip, 5, <<>>, <<o1, o2>>, "none") :
                  o1 \in RecentOmmers(c), o2 \in RecentOmmers(c)}
        \cup {recipe("child", tip, 5, <<>>, <<o, o, o>>, "none") :
                  o \in {sibling(tip)}}
        \cup {recipe("child", tip, 5, <<>>, <<o>>, "ommers_hash") :
                  o \in {sibling(tip)}}
        \cup {recipe("child", tip, 5, <<>>, ommers, fault) :
                  ommers \in {<<>>, <<sibling(tip)>>,
                              <<sibling(tip), sibling(tip), sibling(tip)>>},
                  fault \in {"gas_used", "transactions_root", "receipt_root",
                             "state_root", "bloom"}}
        \cup {recipe("child", c.blocks[1].header, 5, <<>>, ommers, "none") :
                  ommers \in ForkOmmers(c)}

InitOmmers ==
    /\ chain \in {grow(TestChain, n) : n \in 0..MaxAncestors}
    /\ last = [block |-> <<>>, stage |-> "init", error |-> "none", pre |-> chain,
               body |-> NoBody]
    /\ calls = 0
    /\ probe = Idle

OmmerBlock ==
    /\ calls = 0
    /\ \E r \in OmmerRecipes(chain) :
          LET result == state_transition(chain, build(chain, r))
          IN  /\ chain' = as_chain(result)
              /\ last' = [block |-> build(chain, r), stage |-> result.stage,
                          error |-> result.error, pre |-> chain,
                          body |-> result.body]
    /\ calls' = 1
    /\ UNCHANGED probe

NextOmmers == OmmerBlock

SpecOmmers == InitOmmers /\ [][NextOmmers]_vars

(***************************************************************************)
(* Properties.                                                             *)
(***************************************************************************)
Called == last.stage # "init"
Failed == Called /\ last.error # "none"
Accepted == Called /\ last.error = "none"
Untouched == chain = last.pre

\* C1: rejection atomicity: when state_transition fails, chain.state after the
\* call equals chain.state before the call.
C1_RejectionAtomicity == Failed => chain.state = last.pre.state

\* C2: chain.blocks is append-only and changes only on success: after a call it
\* is the previous sequence (the call failed) or the previous sequence with the
\* block appended as its last element (the call succeeded).
C2_AppendOnly ==
    Called =>
        IF last.error = "none"
        THEN /\ chain.blocks = Append(last.pre.blocks, last.block)
             /\ chain.blocks[Len(chain.blocks)] = last.block
        ELSE chain.blocks = last.pre.blocks

C2_Witness ==
    /\ Failed
    /\ last.stage = "state_transition"
    /\ last.error = "bloom"
    /\ Len(chain.blocks) >= 3

\* C3: chain numbering: starting from an empty chain, every index i of
\* chain.blocks holds a block with header.number = i, and the first block is
\* the genesis block.
FromEmptyChain == chain.blocks = <<>> \/ chain.blocks[1] # TEST_GENESIS_BLOCK

C3_ChainNumbering ==
    FromEmptyChain =>
        /\ \A i \in 1..Len(chain.blocks) : chain.blocks[i].header.number = i - 1
        /\ chain.blocks # <<>> =>
               validate_genesis_header(chain.blocks[1].header) = "none"

\* C4: commitment cross-check: a block is appended only if the gas used, the
\* transactions root, the receipt root, the root of the post-state and the
\* bloom computed by body execution on the state it was executed on equal the
\* fields of its header.
C4_CommitmentCrossCheck ==
    Accepted =>
        LET header == last.block.header
            body == apply_body(
                        IF header.number = 0
                        THEN apply_prealloc(last.pre.state, MAINNET_GENESIS_CONFIG.alloc)
                        ELSE last.pre.state,
                        get_recent_block_hashes(last.pre, 256),
                        header.coinbase, header.number, header.gas_limit,
                        header.timestamp, header.difficulty,
                        last.block.transactions, last.block.ommers)
        IN  /\ body.gas_used = header.gas_used
            /\ body.transactions_root = header.transactions_root
            /\ body.receipt_root = header.receipt_root
            /\ state_root(body.state) = header.state_root
            /\ body.block_logs_bloom = header.bloom
            /\ state_root(chain.state) = header.state_root

C4_Witness ==
    /\ Accepted
    /\ Len(last.block.transactions) = 2
    /\ last.block.header.gas_used = 42000

\* C5: unknown parent: a block with number # 0 whose parent_hash is the header
\* hash of no block of the chain fails in the parent lookup, before header
\* validation and body execution, and leaves the chain and the state as they were.
KnownParent ==
    \E i \in 1..Len(last.pre.blocks) :
        compute_header_hash(last.pre.blocks[i].header) = last.block.header.parent_hash

C5_UnknownParent ==
    (Called /\ last.block.header.number # 0 /\ ~KnownParent) =>
        /\ last.stage = "get_block_header_by_hash"
        /\ last.error = "ValueError"
        /\ Untouched

C5_Witness ==
    /\ Called
    /\ last.stage = "get_block_header_by_hash"
    /\ last.pre.blocks # <<>>
    /\ Len(last.block.transactions) = 1
    /\ ~KnownParent

\* C6: header linkage: a block with number # 0 and resolved parent P is accepted
\* only if its timestamp is greater than P's, its number is P.number + 1 and its
\* extra_data has at most 32 bytes; a header violating one of the three is
\* rejected by header validation even with a valid difficulty and gas limit.
ResolvedParent == get_block_header_by_hash(last.block.header.parent_hash, last.pre)

Linked(header, parent_header) ==
    /\ header.timestamp > parent_header.timestamp
    /\ header.number = parent_header.number + 1
    /\ Len(header.extra_data) <= 32

C6_HeaderLinkage ==
    (Called /\ last.block.header.number # 0 /\ KnownParent) =>
        /\ Accepted => Linked(last.block.header, ResolvedParent)
        /\ ~Linked(last.block.header, ResolvedParent) =>
               /\ last.stage = "validate_header"
               /\ Untouched

C6_Witness ==
    /\ Called
    /\ last.stage = "validate_header"
    /\ last.error = "timestamp"
    /\ KnownParent
    /\ last.block.header.timestamp = ResolvedParent.timestamp
    /\ last.block.header.number = ResolvedParent.number + 1

\* C7: difficulty formula: calculate_block_difficulty is 131072 for number 0,
\* else parent_difficulty + parent_difficulty div 2048 when timestamp <
\* parent_timestamp + 13, else max(131072, parent_difficulty - parent_difficulty
\* div 2048); 131072 with timestamps 0 -> 5 gives 131136 and with 0 -> 100 gives
\* 131072; validate_header rejects a header whose difficulty is another value.
ExpectedDifficulty ==
    LET pd == probe.parent_difficulty
        step == pd \div 2048
    IN  IF probe.number = 0 THEN 131072
        ELSE IF probe.timestamp < probe.parent_timestamp + 13 THEN pd + step
        ELSE IF pd - step > 131072 THEN pd - step
        ELSE 131072

C7_DifficultyFormula ==
    probe.done =>
        /\ probe.difficulty = FromInt(ExpectedDifficulty)
        /\ ToInt(probe.difficulty) = ExpectedDifficulty
        /\ (probe.number # 0 /\ probe.parent_difficulty = 131072
              /\ probe.parent_timestamp = 0 /\ probe.timestamp = 5)
               => ToInt(probe.difficulty) = 131136
        /\ (probe.number # 0 /\ probe.parent_difficulty = 131072
              /\ probe.parent_timestamp = 0 /\ probe.timestamp = 100)
               => ToInt(probe.difficulty) = 131072
        /\ probe.number # 0 =>
               (probe.verdict = "difficulty" <=> probe.claimed # ExpectedDifficulty)

C7_Witness ==
    /\ probe.done
    /\ probe.number = 1
    /\ probe.parent_difficulty = 131072
    /\ probe.parent_timestamp = 0
    /\ probe.timestamp = 100
    /\ probe.claimed = 131008
    /\ ToInt(probe.difficulty) = 131072
    /\ probe.verdict = "difficulty"

\* C8: gas-limit rule: with d = P div 1024, check_gas_limit(G, P) is true
\* exactly when P - d < G < P + d and G >= 5000; no G is accepted when P < 1024.
C8_GasLimitRule ==
    probe.done =>
        LET g == probe.gas_limit
            p == probe.parent_gas_limit
            d == p \div 1024
        IN  /\ probe.out <=> (p - d < g /\ g < p + d /\ g >= 5000)
            /\ p < 1024 => ~probe.out

C8_Witness ==
    /\ probe.done
    /\ probe.out
    /\ probe.parent_gas_limit = 10240
    /\ probe.gas_limit = 10249

\* C9 as stated: with parent gas limit 5000000 the check passes for 5004882,
\* fails for 5004883, passes for 4995117, fails for 4995116 and fails for 4999.
C9_ScenarioS6 ==
    (probe.done /\ probe.parent_gas_limit = 5000000) =>
        /\ probe.gas_limit = 5004882 => probe.out
        /\ probe.gas_limit = 5004883 => ~probe.out
        /\ probe.gas_limit = 4995117 => probe.out
        /\ probe.gas_limit = 4995116 => ~probe.out
        /\ probe.gas_limit = 4999 => ~probe.out

\* C9 amended: with parent gas limit 5000000 (delta 4882) the check fails for
\* 5004882 and 4995117 too: it passes for 5004881 and 4995119, the values next
\* to the strict bounds 5004882 and 4995118, and fails for 5004882, 5004883,
\* 4995117, 4995116 and 4999.
C9_ScenarioS6Amended ==
    (probe.done /\ probe.parent_gas_limit = 5000000) =>
        /\ probe.gas_limit = 5004881 => probe.out
        /\ probe.gas_limit = 5004882 => ~probe.out
        /\ probe.gas_limit = 5004883 => ~probe.out
        /\ probe.gas_limit = 4995119 => probe.out
        /\ probe.gas_limit = 4995117 => ~probe.out
        /\ probe.gas_limit = 4995116 => ~probe.out
        /\ probe.gas_limit = 4999 => ~probe.out

C9_Witness ==
    /\ probe.done
    /\ probe.parent_gas_limit = 5000000
    /\ probe.gas_limit = 5004882
    /\ ~probe.out

\* C10: genesis header validation: a block with number 0 is accepted only if
\* parent_hash and mix_digest are zero, coinbase is the zero address, gas_used
\* is 0 and difficulty, gas_limit, timestamp, extra_data and nonce are the
\* mainnet constants; otherwise it is rejected and the allocation is not seeded.
GenesisFields(header) ==
    /\ header.parent_hash = ZERO_HASH32
    /\ header.coinbase = ZERO_ADDRESS
    /\ header.gas_used = 0
    /\ header.mix_digest = ZERO_HASH32
    /\ header.difficulty = <<9184, 7986, 171>>
    /\ header.gas_limit = 5000
    /\ header.timestamp = 0
    /\ header.extra_data = MAINNET_EXTRA_DATA
    /\ header.nonce = <<0, 0, 0, 0, 0, 0, 0, 66>>

C10_GenesisValidation ==
    (Called /\ last.block.header.number = 0) =>
        /\ Accepted => GenesisFields(last.block.header)
        /\ ~GenesisFields(last.block.header) =>
               /\ last.stage = "validate_genesis_header"
               /\ Untouched

C10_Witness ==
    /\ Called
    /\ last.block.header.number = 0
    /\ last.stage = "validate_genesis_header"
    /\ last.error = "nonce"
    /\ last.pre.blocks = <<>>
    /\ chain.state = <<>>

\* C11: transaction validation: process_transaction rejects a transaction
\* whose nonce differs from the sender's, whose gas is below the intrinsic
\* cost or whose gas * gas_price exceeds the sender's balance; the state is
\* then unchanged and the EVM is not called; a plain transfer with gas 20999
\* is rejected with the state unchanged.
ZeroBytes(data) == Cardinality({i \in DOMAIN data : data[i] = 0})

IntrinsicCost(tx) ==
    21000 + 4 * ZeroBytes(tx.data) + 68 * (Len(tx.data) - ZeroBytes(tx.data))

Rejected(result, state) ==
    /\ result.error = "validate_transaction"
    /\ result.state = state
    /\ result.vm = <<>>
    /\ result.gas_used = 0

C11_TransactionValidation ==
    (probe.done /\ "a1" \in DOMAIN probe.state) =>
        LET sender == probe.state["a1"]
            tx == probe.tx
        IN  /\ sender.nonce # tx.nonce => Rejected(probe.result, probe.state)
            /\ IntrinsicCost(tx) > tx.gas => Rejected(probe.result, probe.state)
            /\ ULess(sender.balance, FromInt(tx.gas * tx.gas_price))
                   => Rejected(probe.result, probe.state)
            /\ (tx.gas = 20999 /\ tx.data = <<>>)
                   => Rejected(probe.result, probe.state)

C11_Witness ==
    /\ probe.done
    /\ probe.state = [a \in {"a1"} |-> [nonce |-> 0, balance |-> <<0, 0, 0, 0, 100>>]]
    /\ probe.tx = [nonce |-> 0, gas_price |-> 1, gas |-> 20999, to |-> "a2",
                   value |-> <<0, 0, 0, 0, 10>>, data |-> <<>>, sender |-> "a1"]
    /\ probe.result.error = "validate_transaction"
    /\ probe.result.state = probe.state

\* C12: nonce monotonicity: after a successfully applied block the nonce of
\* every address is its nonce before plus the number of the block's
\* transactions whose sender it is; over any call no nonce decreases.
Addresses ==
    DOMAIN chain.state \cup DOMAIN last.pre.state
        \cup {"a1", "a2", "cb", "oc", ZERO_ADDRESS}

NonceOf(state, a) == IF a \in DOMAIN state THEN state[a].nonce ELSE 0

SentBy(transactions, a) ==
    Cardinality({i \in DOMAIN transactions : transactions[i].sender = a})

C12_NonceMonotonicity ==
    Called =>
        \A a \in Addresses :
            /\ NonceOf(chain.state, a) >= NonceOf(last.pre.state, a)
            /\ Accepted =>
                   NonceOf(chain.state, a)
                       = NonceOf(last.pre.state, a) + SentBy(last.block.transactions, a)

C12_Witness ==
    /\ Accepted
    /\ SentBy(last.block.transactions, "a1") = 2
    /\ NonceOf(last.pre.state, "a1") = 1
    /\ NonceOf(chain.state, "a1") = 3
    /\ NonceOf(chain.state, "a2") = 0

\* C13 as stated: balance conservation: for every successfully applied block
\* the sum of all balances after the block is the sum before it plus the miner
\* reward plus the ommer rewards (a block with number 0 is paid no reward).
RECURSIVE SumOver(_, _)
SumOver(balance, addresses) ==
    IF addresses = {} THEN <<>>
    ELSE LET a == CHOOSE x \in addresses : TRUE
         IN  UAdd(balance[a].balance, SumOver(balance, addresses \ {a}))

TotalBalance(state) == SumOver(state, DOMAIN state)

FiveEther == <<0, 0, 0, 0, 500>>

RECURSIVE OmmerRewards(_, _, _)
OmmerRewards(number, ommers, i) ==
    IF i > Len(ommers) THEN <<>>
    ELSE UAdd(USub(FiveEther,
                   UFloorDiv(UMul(FiveEther, number - ommers[i].number), 8)),
              OmmerRewards(number, ommers, i + 1))

BlockRewards(block) ==
    IF block.header.number = 0 THEN <<>>
    ELSE UAdd(UAdd(FiveEther, UFloorDiv(UMul(FiveEther, Len(block.ommers)), 32)),
              OmmerRewards(block.header.number, block.ommers, 1))

C13_BalanceConservation ==
    Accepted =>
        TotalBalance(chain.state)
            = UAdd(TotalBalance(last.pre.state), BlockRewards(last.block))

\* C13 amended: for every successfully applied block with number # 0 the sum
\* of all balances after the block is the sum before it plus the miner reward
\* plus the ommer rewards; a successfully applied block with number 0 adds
\* the balances of the genesis allocation and no reward; fees and transferred
\* values only move wei between accounts.
C13_BalanceConservationAmended ==
    Accepted =>
        TotalBalance(chain.state)
            = UAdd(TotalBalance(last.pre.state),
                   IF last.block.header.number = 0
                   THEN TotalBalance(MAINNET_GENESIS_CONFIG.alloc)
                   ELSE BlockRewards(last.block))

C13_Witness ==
    /\ Accepted
    /\ last.block.header.number # 0
    /\ Len(last.block.transactions) = 2
    /\ last.block.transactions[2].sender = "a2"
    /\ last.block.header.gas_used = 42072
    /\ TotalBalance(chain.state) = UAdd(TotalBalance(last.pre.state), FiveEther)

\* C14: intrinsic bound: every transaction of an accepted block has gas of at
\* least 21000 + 4 per zero byte + 68 per non-zero byte of its data, the EVM
\* is called once per transaction with the gas less that intrinsic cost, and
\* the gas charged for the transaction is at least the intrinsic cost.
GasCharged(receipts, i) ==
    receipts[i].cumulative_gas_used
        - (IF i = 1 THEN 0 ELSE receipts[i - 1].cumulative_gas_used)

C14_IntrinsicBound ==
    Accepted =>
        /\ Len(last.body.vm) = Len(last.block.transactions)
        /\ Len(last.body.receipts) = Len(last.block.transactions)
        /\ \A i \in DOMAIN last.block.transactions :
               LET tx == last.block.transactions[i]
               IN  /\ tx.gas >= IntrinsicCost(tx)
                   /\ last.body.vm[i].gas = tx.gas - IntrinsicCost(tx)
                   /\ GasCharged(last.body.receipts, i) >= IntrinsicCost(tx)

C14_Witness ==
    /\ Accepted
    /\ Len(last.block.transactions) = 2
    /\ last.block.transactions[1].data = <<0, 1>>
    /\ last.block.transactions[1].gas = 30000
    /\ last.body.vm[1].gas = 8928
    /\ last.body.vm[2].gas = 0
    /\ GasCharged(last.body.receipts, 2) = 21000

\* C15: fee settlement: a successfully processed transaction takes value +
\* gas_used * gas_price from the sender, gives value to the recipient and
\* gas_used * gas_price to the coinbase, with gas_used = tx.gas - gas_left, so
\* unused gas is not charged; in a block of number 1 without ommers the
\* transfer of 10^17 wei with gas 21000 at gas price 1 from an account holding
\* 10^18 leaves the sender 10^18 - 10^17 - 21000 and nonce 1, the recipient
\* 10^17, the coinbase 21000 + 5 * 10^18, and one receipt with cumulative gas
\* used 21000 and no logs.
BalanceOf(state, a) == IF a \in DOMAIN state THEN state[a].balance ELSE <<>>

Amount(condition, amount) == IF condition THEN amount ELSE <<>>

OneTransaction ==
    /\ probe.done
    /\ Len(probe.input.transactions) = 1
    /\ probe.result.error = "none"

C15_FeeSettlement ==
    /\ OneTransaction =>
           LET tx == probe.input.transactions[1]
               gas_left == probe.result.vm[1].gas
               gas_used == tx.gas - gas_left
               fee == FromInt(gas_used * tx.gas_price)
           IN  /\ probe.result.gas_used = gas_used
               /\ gas_used <= tx.gas
               /\ \A a \in {"a1", "a2", "cb"} :
                      UAdd(BalanceOf(probe.result.state, a),
                           Amount(a = tx.sender, UAdd(tx.value, fee)))
                        = UAdd(UAdd(BalanceOf(probe.input.state, a),
                                    Amount(a = tx.to, tx.value)),
                               Amount(a = probe.input.coinbase,
                                      UAdd(fee, FiveEther)))
    /\ (probe.done /\ probe.input.state = TEST_PRE_STATE
          /\ probe.input.transactions = <<transfer(0, 21000)>>) =>
           /\ probe.result.error = "none"
           /\ probe.result.state =
                  [a \in {"a1", "a2", "cb"} |->
                      CASE a = "a1" -> [nonce |-> 1, balance |-> <<9000, 9997, 9999, 9999, 89>>]
                        [] a = "a2" -> [nonce |-> 0, balance |-> <<0, 0, 0, 0, 10>>]
                        [] a = "cb" -> [nonce |-> 0, balance |-> <<1000, 2, 0, 0, 500>>]]
           /\ Len(probe.result.receipts) = 1
           /\ probe.result.receipts[1].cumulative_gas_used = 21000
           /\ probe.result.receipts[1].logs = <<>>

C15_Witness ==
    /\ OneTransaction
    /\ probe.input.state = TEST_PRE_STATE
    /\ probe.input.transactions = <<[transfer(0, 30000) EXCEPT !.gas_price = 2]>>
    /\ probe.result.gas_used = 21000
    /\ BalanceOf(probe.result.state, "a1") = <<8000, 9995, 9999, 9999, 89>>
    /\ BalanceOf(probe.result.state, "cb") = <<2000, 4, 0, 0, 500>>

\* C16: reward payment: a block with number # 0 credits its coinbase with
\* 5 * 10^18 + floor(5 * 10^18 * |ommers| / 32) and the coinbase of each ommer
\* with 5 * 10^18 - floor(5 * 10^18 * age / 8), age = block number - ommer
\* number; a block with number 0 credits nobody; for an age from 1 to 6 the
\* ommer reward is more than 0 and less than 5 * 10^18.
\* 5 * 10^18 / 32 and 5 * 10^18 / 8, which divide exactly
ThirtySecond == <<0, 0, 0, 6250, 15>>
Eighth == <<0, 0, 0, 5000, 62>>

RECURSIVE OmmerCredits(_, _, _, _)
OmmerCredits(a, number, ommers, i) ==
    IF i > Len(ommers) THEN <<>>
    ELSE UAdd(Amount(ommers[i].coinbase = a,
                     UMul(Eighth, 8 - (number - ommers[i].number))),
              OmmerCredits(a, number, ommers, i + 1))

NoTransaction == probe.done /\ probe.input.transactions = <<>>

C16_RewardPayment ==
    NoTransaction =>
        LET input == probe.input
            n == Len(input.ommers)
        IN  /\ probe.result.error = "none"
            /\ input.number = 0 => probe.result.state = input.state
            /\ input.number # 0 =>
                   \A a \in {"a1", "cb", "oc"} :
                       BalanceOf(probe.result.state, a)
                         = UAdd(UAdd(BalanceOf(input.state, a),
                                     Amount(a = input.coinbase,
                                            UAdd(FiveEther, UMul(ThirtySecond, n)))),
                                OmmerCredits(a, input.number, input.ommers, 1))
            /\ (input.number # 0 /\ n = 1 /\ input.ommers[1].coinbase = "oc"
                  /\ input.number - input.ommers[1].number \in 1..6) =>
                   LET credited == USub(BalanceOf(probe.result.state, "oc"),
                                        BalanceOf(input.state, "oc"))
                   IN  ULess(<<>>, credited) /\ ULess(credited, FiveEther)

C16_Witness ==
    /\ NoTransaction
    /\ probe.input.state = TEST_PRE_STATE
    /\ probe.input.number = 9
    /\ probe.input.ommers = <<ommer_header(3, "oc"), ommer_header(8, "oc")>>
    /\ BalanceOf(probe.result.state, "oc") = <<0, 0, 0, 5000, 562>>
    /\ BalanceOf(probe.result.state, "cb") = <<0, 0, 0, 2500, 531>>

\* C17: ommer validation: an appended block has at most 2 ommers, its
\* ommers_hash is the hash of its ommer list, and each ommer O has an age from
\* 1 to 6, a hash other than that of the header of A = chain.blocks[len - age]
\* and the parent_hash of A's header; for block 10 on the chain of blocks 0..9
\* a sibling of a block of number 4..9 is accepted as ommer and an ommer of
\* number 3 or 10 is rejected.
OmmerOfAncestor(ommer, block_number, blocks) ==
    LET age == block_number - ommer.number
    IN  /\ 1 <= age /\ age <= 6
        /\ Len(blocks) - age >= 0
        /\ LET A == blocks[(Len(blocks) - age) + 1]
           IN  /\ <<"header", ommer>> # <<"header", A.header>>
               /\ ommer.parent_hash = A.header.parent_hash

SiblingOfCanonical(ommer, blocks) ==
    \E k \in 1..Len(blocks) :
        /\ ommer.number = blocks[k].header.number
        /\ ommer.parent_hash = blocks[k].header.parent_hash
        /\ ommer # blocks[k].header

\* the header commits to what executing the body produced
CommitsToBody(block, body) ==
    /\ body.error = "none"
    /\ body.gas_used = block.header.gas_used
    /\ body.transactions_root = block.header.transactions_root
    /\ body.receipt_root = block.header.receipt_root
    /\ <<"state", body.state>> = block.header.state_root
    /\ body.block_logs_bloom = block.header.bloom

C17_OmmerValidation ==
    /\ Accepted =>
           /\ Len(last.block.ommers) <= 2
           /\ last.block.header.ommers_hash = <<"headers", last.block.ommers>>
           /\ \A i \in DOMAIN last.block.ommers :
                  OmmerOfAncestor(last.block.ommers[i], last.block.header.number,
                                  last.pre.blocks)
    /\ (Called /\ last.block.header.number = 10 /\ Len(last.pre.blocks) = 10
          /\ Len(last.block.ommers) = 1
          /\ last.block.header.ommers_hash = <<"headers", last.block.ommers>>
          /\ CommitsToBody(last.block, last.body)) =>
           LET ommer == last.block.ommers[1]
           IN  /\ (ommer.number \in 4..9 /\ SiblingOfCanonical(ommer, last.pre.blocks))
                      => Accepted
               /\ ommer.number \in {3, 10} =>
                      /\ last.stage = "validate_ommers"
                      /\ last.error = "ommer_age"
                      /\ chain.blocks = last.pre.blocks

C17_Witness ==
    /\ Accepted
    /\ last.block.header.number = 10
    /\ Len(last.pre.blocks) = 10
    /\ Len(last.block.ommers) = 1
    /\ last.block.ommers[1].number = 4
    /\ SiblingOfCanonical(last.block.ommers[1], last.pre.blocks)

(***************************************************************************)
(* get_recent_block_hashes on its own: chains of zero to MaxAncestors + 1  *)
(* blocks and windows shorter than, equal to and longer than the chain,    *)
(* the 256 of state_transition among them.                                 *)
(***************************************************************************)
WindowSizes == (0..(MaxAncestors + 2)) \cup {256}

InitRecentHashes ==
    /\ chain \in {EmptyChain} \cup {grow(TestChain, n) : n \in 0..MaxAncestors}
    /\ last = [block |-> <<>>, stage |-> "init", error |-> "none", pre |-> chain,
               body |-> NoBody]
    /\ calls = 0
    /\ \E num_blocks \in WindowSizes :
           probe = [fn |-> "get_recent_block_hashes", num_blocks |-> num_blocks,
                    done |-> FALSE, out |-> <<>>]

RecentHashes ==
    /\ ~probe.done
    /\ probe' = [probe EXCEPT
                    !.done = TRUE,
                    !.out = get_recent_block_hashes(chain, probe.num_blocks)]
    /\ UNCHANGED <<chain, last, calls>>

NextRecentHashes == RecentHashes

SpecRecentHashes == InitRecentHashes /\ [][NextRecentHashes]_vars

\* C18: block-hash window length: get_recent_block_hashes(chain, num_blocks)
\* returns exactly min(num_blocks, |chain.blocks|) hashes, the hash of the
\* most recent block last.
Min(a, b) == IF a <= b THEN a ELSE b

C18_WindowLength ==
    (probe.fn = "get_recent_block_hashes" /\ probe.done) =>
        /\ Len(probe.out) = Min(probe.num_blocks, Len(chain.blocks))
        /\ probe.out # <<>> =>
               probe.out[Len(probe.out)] = compute_block_hash(chain.blocks[Len(chain.blocks)])

\* C20: order of checks in state_transition: ommer validation is reached only
\* after the five commitment checks (gas_used, transactions root, receipt root,
\* state root, bloom) have passed, so a block with a commitment mismatch and an
\* invalid ommer list fails on the commitment mismatch.
C20_OrderOfChecks ==
    (Called /\ last.stage = "validate_ommers") => CommitsToBody(last.block, last.body)

\* C21: sequential transaction semantics: the transactions of a block are
\* processed in block order, transaction i against the state left by the
\* transactions before it (nonces n and n + 1 of one sender are both accepted
\* in that order, a reused nonce is rejected); there is one receipt per
\* transaction in the same order, and receipt i's post_state is the root of
\* the state right after transaction i and before rewards.
EarlierSentBy(transactions, i, a) ==
    Cardinality({j \in 1..(i - 1) : transactions[j].sender = a})

\* what the first i transactions cost their sender a: values and fees
RECURSIVE SpentBy(_, _, _, _)
SpentBy(transactions, receipts, i, a) ==
    IF i = 0 THEN <<>>
    ELSE UAdd(SpentBy(transactions, receipts, i - 1, a),
              Amount(transactions[i].sender = a,
                     UAdd(transactions[i].value,
                          FromInt(GasCharged(receipts, i) * transactions[i].gas_price))))

\* what the first i transactions brought a: values and, for the coinbase, fees
RECURSIVE ReceivedBy(_, _, _, _, _)
ReceivedBy(transactions, receipts, i, a, coinbase) ==
    IF i = 0 THEN <<>>
    ELSE UAdd(ReceivedBy(transactions, receipts, i - 1, a, coinbase),
              UAdd(Amount(transactions[i].to = a, transactions[i].value),
                   Amount(coinbase = a,
                          FromInt(GasCharged(receipts, i) * transactions[i].gas_price))))

StateOfRoot(root) == root[2]

C21_SequentialTransactions ==
    (probe.fn = "apply_body" /\ probe.done) =>
        LET input == probe.input
            txs == input.transactions
            result == probe.result
        IN  /\ result.error = "none" =>
                /\ Len(result.receipts) = Len(txs)
                /\ Len(result.vm) = Len(txs)
                /\ \A i \in DOMAIN txs :
                       LET after == StateOfRoot(result.receipts[i].post_state)
                       IN  /\ txs[i].nonce = NonceOf(input.state, txs[i].sender)
                                  + EarlierSentBy(txs, i, txs[i].sender)
                           /\ result.vm[i].caller = txs[i].sender
                           /\ result.vm[i].target = txs[i].to
                           /\ result.vm[i].data = txs[i].data
                           /\ \A a \in {"a1", "a2", "cb", LOGGER} :
                                  /\ NonceOf(after, a) = NonceOf(input.state, a)
                                         + EarlierSentBy(txs, i + 1, a)
                                  /\ UAdd(BalanceOf(after, a),
                                          SpentBy(txs, result.receipts, i, a))
                                       = UAdd(BalanceOf(input.state, a),
                                              ReceivedBy(txs, result.receipts, i, a,
                                                         input.coinbase))
            /\ (\E i \in DOMAIN txs :
                    txs[i].nonce # NonceOf(input.state, txs[i].sender)
                                       + EarlierSentBy(txs, i, txs[i].sender))
                   => /\ result.error # "none"
                      /\ Len(result.receipts) < Len(txs)

C21_Witness ==
    /\ probe.fn = "apply_body" /\ probe.done
    /\ probe.result.error = "none"
    /\ Len(probe.input.transactions) = 3
    /\ probe.input.transactions[2].to = LOGGER
    /\ probe.input.transactions[3].nonce = 2
    /\ NonceOf(StateOfRoot(probe.result.receipts[2].post_state), "a1") = 2
    /\ BalanceOf(StateOfRoot(probe.result.receipts[3].post_state), "cb")
           # BalanceOf(probe.result.state, "cb")

\* C22: block gas accounting: body execution rejects a transaction whose gas
\* exceeds the gas still available in the block; gas_available never becomes
\* negative, receipt i's cumulative_gas_used is the sum of the gas used by
\* transactions 1..i, the cumulative values are non-decreasing and at most the
\* block gas limit, and the gas_used returned is the last receipt's
\* cumulative_gas_used (0 for a block without transactions).
RECURSIVE GasUsedUpTo(_, _, _)
GasUsedUpTo(transactions, vm, i) ==
    IF i = 0 THEN 0
    ELSE GasUsedUpTo(transactions, vm, i - 1) + (transactions[i].gas - vm[i].gas)

CumulativeGasUsed(receipts, i) ==
    IF i = 0 THEN 0 ELSE receipts[i].cumulative_gas_used

RECURSIVE BlockLogs(_, _)
BlockLogs(receipts, i) ==
    IF i = 0 THEN <<>> ELSE BlockLogs(receipts, i - 1) \o receipts[i].logs

C23_BlockBloom ==
    (probe.fn = "apply_body" /\ probe.done /\ probe.result.error = "none") =>
        probe.result.block_logs_bloom
            = logs_bloom(BlockLogs(probe.result.receipts, Len(probe.result.receipts)))

\* C24: parent is the chain tip: a block with number # 0 is accepted only if
\* its parent_hash is the header hash of the last block of chain.blocks; a
\* block whose parent is an earlier block of the chain is never appended.
C24_ParentIsTip ==
    (Accepted /\ last.block.header.number # 0) =>
        /\ last.pre.blocks # <<>>
        /\ last.block.header.parent_hash
               = <<"header", last.pre.blocks[Len(last.pre.blocks)].header>>

\* C25: genesis happens once: a block with number 0 is accepted only when
\* chain.blocks is empty, and the genesis allocation is credited at most once:
\* presenting a number-0 block to a chain that has blocks, whether the call
\* succeeds or fails, credits no allocated account again.
C25_GenesisOnce ==
    (Called /\ last.block.header.number = 0 /\ last.pre.blocks # <<>>) =>
        /\ Failed
        /\ \A a \in DOMAIN MAINNET_GENESIS_CONFIG.alloc :
               BalanceOf(chain.state, a) = BalanceOf(last.pre.state, a)

\* C26: ommer uniqueness: an accepted block never lists the same ommer header
\* twice and never lists an ommer header that an earlier block of the chain
\* already included as an ommer.
IncludedOmmers(blocks) ==
    UNION {{blocks[k].ommers[i] : i \in DOMAIN blocks[k].ommers} : k \in DOMAIN blocks}

C26_OmmerUniqueness ==
    Accepted =>
        /\ \A i, j \in DOMAIN last.block.ommers :
               i # j => last.block.ommers[i] # last.block.ommers[j]
        /\ \A i \in DOMAIN last.block.ommers :
               last.block.ommers[i] \notin IncludedOmmers(last.pre.blocks)

\* C27: ommer comparison block: whenever validate_ommers is reached inside
\* state_transition for an ommer O with 1 <= age <= 6, len(chain.blocks) - age
\* is a non-negative index and the block found there has the number of O.
OmmersReached ==
    /\ Called
    /\ last.stage \in {"validate_ommers", "state_transition", "done"}
    /\ last.error # "gas_used"
    /\ Len(last.block.ommers) <= 2
    /\ last.block.header.ommers_hash = <<"headers", last.block.ommers>>

\* the loop reaches ommer i when every ommer before it passed
ReachedOmmer(i) ==
    /\ OmmersReached
    /\ i \in DOMAIN last.block.ommers
    /\ \A j \in 1..(i - 1) :
           OmmerOfAncestor(last.block.ommers[j], last.block.header.number,
                           last.pre.blocks)

C27_OmmerComparisonBlock ==
    \A i \in 1..2 :
        LET age == last.block.header.number - last.block.ommers[i].number
            at == Len(last.pre.blocks) - age
        IN  (ReachedOmmer(i) /\ 1 <= age /\ age <= 6) =>
                /\ at >= 0
                /\ last.pre.blocks[at + 1].header.number = last.block.ommers[i].number

\* C28: block-hash window matches header hashes: for every accepted block
\* with number # 0, each entry of the window handed to body execution
\* (get_recent_block_hashes of the chain before the call, for 256 blocks) is
\* the header hash of a block of chain.blocks, and the last entry is the
\* block's own parent_hash.
HeaderHashes(blocks) == {<<"header", blocks[k].header>> : k \in DOMAIN blocks}

C28_WindowOfHeaderHashes ==
    (Accepted /\ last.block.header.number # 0) =>
        LET window == get_recent_block_hashes(last.pre, 256)
        IN  /\ window # <<>>
            /\ \A i \in DOMAIN window : window[i] \in HeaderHashes(last.pre.blocks)
            /\ window[Len(window)] = last.block.header.parent_hash

====
